---- MODULE Spec2Model ----
(***************************************************************************)
(* Model of the vantage-lite backtest core (backend/app/backtest.py) and   *)
(* of its HTTP boundary (backend/app/main.py).                             *)
(*                                                                         *)
(* Numbers.  A Python float is modelled as a decimal fixed-point number:   *)
(* the integer x stands for x / SCALE, and every multiplication, division  *)
(* and square root rounds its exact result to the nearest representable    *)
(* value, ties to even, as IEEE arithmetic does (on a coarser grid).       *)
(* A value produced by round(v, 2) is kept as the integer number of        *)
(* hundredths, one produced by round(v, 4) as the number of                *)
(* ten-thousandths.                                                        *)
(***************************************************************************)
EXTENDS Integers, Sequences, FiniteSets, TLC

ScaleRoot == 10 * 10 * 10
SCALE == ScaleRoot * ScaleRoot

Abs(x) == IF x < 0 THEN 0 - x ELSE x
Sgn(x) == IF x < 0 THEN 0 - 1 ELSE IF x > 0 THEN 1 ELSE 0

FromInt(n) == n * SCALE

\* whole + rem/den (0 <= rem < den) rounded to the nearest integer, ties to even
RoundHalfEven(whole, rem, den) ==
    IF 2 * rem < den THEN whole
    ELSE IF 2 * rem > den THEN whole + 1
    ELSE IF whole % 2 = 0 THEN whole ELSE whole + 1

\* a / b for an integer b > 0, rounded to the nearest integer
RoundDiv(a, b) == Sgn(a) * RoundHalfEven(Abs(a) \div b, Abs(a) % b, b)

\* float * float
FMulAbs(a, b) ==
    LET ah == a \div ScaleRoot
        al == a % ScaleRoot
        bh == b \div ScaleRoot
        bl == b % ScaleRoot
        t  == ah * bl + al * bh
        x  == (t % ScaleRoot) * ScaleRoot + al * bl
    IN  RoundHalfEven(ah * bh + (t \div ScaleRoot) + (x \div SCALE), x % SCALE, SCALE)
FMul(a, b) == Sgn(a) * Sgn(b) * FMulAbs(Abs(a), Abs(b))

\* the digits of r / b (0 <= r < b) after the point, and what is left over
RECURSIVE LongDiv(_, _, _, _)
LongDiv(r, b, k, acc) ==
    IF k = 1 THEN <<acc, r>>
    ELSE LongDiv((r * 10) % b, b, k \div 10, acc * 10 + ((r * 10) \div b))

\* float / float, b # 0
FDivAbs(a, b) ==
    LET d == LongDiv(a % b, b, SCALE, 0)
    IN  RoundHalfEven((a \div b) * SCALE + d[1], d[2], b)
FDiv(a, b) == Sgn(a) * Sgn(b) * FDivAbs(Abs(a), Abs(b))

\* round(v, 2), in hundredths, and round(v, 4), in ten-thousandths
Round2(v) == RoundDiv(v, SCALE \div 100)
Round4(v) == RoundDiv(v, SCALE \div 10000)
\* the float a rounded value stands for
OfHundredths(h) == h * (SCALE \div 100)

\* the sums of the quotients and of the remainders of s[a..b] by n
RECURSIVE SumQuoRem(_, _, _, _)
SumQuoRem(s, n, a, b) ==
    IF a > b THEN <<0, 0>>
    ELSE IF a = b THEN <<s[a] \div n, s[a] % n>>
    ELSE LET l == SumQuoRem(s, n, a, (a + b) \div 2)
             h == SumQuoRem(s, n, ((a + b) \div 2) + 1, b)
         IN  <<l[1] + h[1], l[2] + h[2]>>

\* sum(s[a..b]) / n for an integer n > 0, rounded to the nearest float; the
\* sum is taken over the quotients and the remainders by n, which stay small
MeanOf(s, a, b, n) ==
    LET qr == SumQuoRem(s, n, a, b)
    IN  RoundHalfEven(qr[1] + (qr[2] \div n), qr[2] % n, n)

(***************************************************************************)
(* The square of a float keeps all its digits: it is the pair <<hi, lo>>   *)
(* standing for (hi * SCALE + lo) / SCALE^2 with 0 <= lo < SCALE, so that  *)
(* a variance of small returns does not round to zero.                     *)
(***************************************************************************)
WNorm(hi, lo) == <<hi + (lo \div SCALE), lo % SCALE>>
WSquare(d) ==
    LET a   == Abs(d)
        ah  == a \div ScaleRoot
        al  == a % ScaleRoot
        mid == 2 * ah * al
    IN  WNorm(ah * ah + (mid \div ScaleRoot), (mid % ScaleRoot) * ScaleRoot + al * al)
WAdd(x, y) == WNorm(x[1] + y[1], x[2] + y[2])
WLeq(x, y) == x[1] < y[1] \/ (x[1] = y[1] /\ x[2] <= y[2])
\* x / n for an integer n > 0, rounded to the nearest
WDivInt(x, n) ==
    LET r    == (x[1] % n) * SCALE + x[2]
    IN  WNorm(x[1] \div n, RoundHalfEven(r \div n, r % n, n))

RECURSIVE WSumSquares(_, _, _, _)
WSumSquares(s, c, a, b) ==
    IF a > b THEN <<0, 0>>
    ELSE IF a = b THEN WSquare(s[a] - c)
    ELSE WAdd(WSumSquares(s, c, a, (a + b) \div 2),
              WSumSquares(s, c, ((a + b) \div 2) + 1, b))

\* the largest y in lo..hi with y * y <= w
RECURSIVE WISqrt(_, _, _)
WISqrt(w, lo, hi) ==
    IF lo = hi THEN lo
    ELSE LET mid == (lo + hi + 1) \div 2
         IN  IF WLeq(WSquare(mid), w) THEN WISqrt(w, mid, hi) ELSE WISqrt(w, lo, mid - 1)

\* w ** 0.5, a float
WSqrt(w) ==
    LET y == WISqrt(w, 0, 46340 * ScaleRoot)
    IN  IF WLeq(WAdd(WSquare(y), <<0, y + 1>>), w) THEN y + 1 ELSE y

(***************************************************************************)
(* Dates.  A date is its proleptic Gregorian ordinal (date.toordinal());   *)
(* strftime("%Y-%m-%d") yields the zero-padded year, month and day, kept   *)
(* as the tuple <<y, m, d>>: strings of that shape compare as the tuples   *)
(* do.                                                                     *)
(***************************************************************************)
strftime(ord) ==
    LET z   == ord + 305
        era == z \div 146097
        doe == z - era * 146097
        yoe == (doe - (doe \div 1460) + (doe \div 36524) - (doe \div 146096)) \div 365
        doy == doe - (365 * yoe + (yoe \div 4) - (yoe \div 100))
        mp  == (5 * doy + 2) \div 153
        d   == doy - ((153 * mp + 2) \div 5) + 1
        m   == IF mp < 10 THEN mp + 3 ELSE mp - 9
        y   == yoe + era * 400 + (IF m <= 2 THEN 1 ELSE 0)
    IN  <<y, m, d>>

\* the order of two formatted dates, as strings
DateLess(a, b) ==
    \/ a[1] < b[1]
    \/ a[1] = b[1] /\ a[2] < b[2]
    \/ a[1] = b[1] /\ a[2] = b[2] /\ a[3] < b[3]

(***************************************************************************)
(* compute_buy_and_hold_return                                             *)
(***************************************************************************)
Closes(prices) == [k \in 1..Len(prices) |-> prices[k].close]

compute_buy_and_hold_return(prices) ==
    LET first == prices[1].close
        last  == prices[Len(prices)].close
    IN  IF first <= 0 THEN 0
        ELSE Round2(FMul(FDiv(last, first) - FromInt(1), FromInt(100)))

(***************************************************************************)
(* run_sma_strategy.  Indices i are the code's, from 0; closes[i] of the   *)
(* code is closes[i + 1] here.                                             *)
(***************************************************************************)
\* mutant: the length test compares with window, not window + 1
SmaGuardOffByOne(closes, window) ==
    IF window < 1 THEN "ValueError: SMA window must be at least 1"
    ELSE IF Len(closes) < window THEN "ValueError: Not enough points"
    ELSE "none"

SmaGuard(closes, window) ==
    IF window < 1 THEN "ValueError: SMA window must be at least 1"
    ELSE IF Len(closes) < window + 1 THEN "ValueError: Not enough points"
    ELSE "none"

\* sum(closes[i - window + 1 : i + 1]) / window
Sma(closes, window, i) ==
    MeanOf(closes, i - window + 2, i + 1, window)

\* mutant: long from the first step, before `window` closes are available
NewPositionNoWarmUp(closes, window, i, position) ==
    IF i >= window - 1
    THEN IF closes[i + 1] > Sma(closes, window, i) THEN FromInt(1) ELSE 0
    ELSE FromInt(1)

\* mutant: long when the close equals its average too
NewPositionGeq(closes, window, i, position) ==
    IF i >= window - 1
    THEN IF closes[i + 1] >= Sma(closes, window, i) THEN FromInt(1) ELSE 0
    ELSE position

NewPosition(closes, window, i, position) ==
    IF i >= window - 1
    THEN IF closes[i + 1] > Sma(closes, window, i) THEN FromInt(1) ELSE 0
    ELSE position

\* mutant: the position is assigned before the return is applied
AppliedPositionNew(position, new_position) == new_position

\* the position the return of step i is weighted by: the loop variable, which
\* still holds the value assigned at the end of iteration i - 1
AppliedPosition(position, new_position) == position

StepReturnGuard(closes, i) == i > 0 /\ closes[i] > 0

StepEquity(closes, i, equity, position) ==
    IF StepReturnGuard(closes, i)
    THEN LET step_return == FDiv(closes[i + 1], closes[i]) - FromInt(1)
         IN  FMul(equity, FromInt(1) + FMul(position, step_return))
    ELSE equity

SmaStart == [i |-> 0, equity |-> FromInt(1), position |-> 0, equity_curve |-> <<>>]

SmaIter(closes, window, st) ==
    LET new_position == NewPosition(closes, window, st.i, st.position)
        equity == StepEquity(closes, st.i, st.equity,
                             AppliedPosition(st.position, new_position))
    IN  [i |-> st.i + 1, equity |-> equity, position |-> new_position,
         equity_curve |-> Append(st.equity_curve, equity)]

\* for i in range(n): at most n iterations of the loop, from st
RECURSIVE SmaLoop(_, _, _, _)
SmaLoop(closes, window, st, n) ==
    IF n = 0 \/ st.i >= Len(closes) THEN st
    ELSE IF n = 1 THEN SmaIter(closes, window, st)
    ELSE SmaLoop(closes, window, SmaLoop(closes, window, st, n \div 2), n - (n \div 2))

\* mutant: the starting equity is not subtracted
TotalReturnPctGross(equity_curve) ==
    Round2(FMul(equity_curve[Len(equity_curve)], FromInt(100)))

TotalReturnPct(equity_curve) ==
    Round2(FMul(equity_curve[Len(equity_curve)] - FromInt(1), FromInt(100)))

SmaResult(equity_curve) ==
    [raised |-> "none", equity_curve |-> equity_curve,
     total_return_pct |-> TotalReturnPct(equity_curve)]

run_sma_strategy(prices, window) ==
    LET closes == Closes(prices)
    IN  IF SmaGuard(closes, window) # "none"
        THEN [raised |-> SmaGuard(closes, window)]
        ELSE SmaResult(SmaLoop(closes, window, SmaStart, Len(closes)).equity_curve)

(***************************************************************************)
(* compute_risk_metrics                                                    *)
(***************************************************************************)
\* mutant: the peak is never raised
RunningPeakStuck(eq, peak) == peak

RunningPeak(eq, peak) == IF eq > peak THEN eq ELSE peak

DrawdownStart(equity_curve) ==
    [k |-> 1, peak |-> equity_curve[1], max_drawdown |-> 0, raised |-> "none"]

\* one iteration of the drawdown loop, on eq = equity_curve[acc.k];
\* eq / peak with peak = 0 raises
DrawdownIter(equity_curve, acc) ==
    LET eq   == equity_curve[acc.k]
        peak == RunningPeak(eq, acc.peak)
    IN  IF acc.raised # "none" THEN acc
        ELSE IF peak = 0
        THEN [k |-> acc.k + 1, peak |-> peak, max_drawdown |-> acc.max_drawdown,
              raised |-> "ZeroDivisionError"]
        ELSE LET drawdown == FDiv(eq, peak) - FromInt(1)
             IN  [k |-> acc.k + 1, peak |-> peak,
                  max_drawdown |-> IF drawdown < acc.max_drawdown
                                   THEN drawdown ELSE acc.max_drawdown,
                  raised |-> "none"]

\* for eq in equity_curve: at most n iterations of the loop, from acc
RECURSIVE DrawdownLoop(_, _, _)
DrawdownLoop(equity_curve, acc, n) ==
    IF n = 0 \/ acc.k > Len(equity_curve) THEN acc
    ELSE IF n = 1 THEN DrawdownIter(equity_curve, acc)
    ELSE DrawdownLoop(equity_curve, DrawdownLoop(equity_curve, acc, n \div 2), n - (n \div 2))

MaxDrawdownPct(max_drawdown) == Round2(FMul(max_drawdown, FromInt(100)))

\* the daily returns: cur / prev - 1 for every i >= 1 whose prev > 0
EquityReturns(equity_curve) ==
    LET at == SelectSeq([k \in 1..(Len(equity_curve) - 1) |-> k + 1],
                        LAMBDA k : equity_curve[k - 1] > 0)
    IN  [j \in 1..Len(at) |-> FDiv(equity_curve[at[j]], equity_curve[at[j] - 1]) - FromInt(1)]

SharpeLike(mean_ret, vol) == IF vol > 0 THEN Round2(FDiv(mean_ret, vol)) ELSE 0

compute_risk_metrics(equity_curve) ==
    IF Len(equity_curve) < 2
    THEN [raised |-> "none", max_drawdown_pct |-> 0, volatility_pct |-> 0, sharpe_like |-> 0]
    ELSE LET dd      == DrawdownLoop(equity_curve, DrawdownStart(equity_curve), Len(equity_curve))
             returns == EquityReturns(equity_curve)
         IN  IF dd.raised # "none" THEN [raised |-> dd.raised]
             ELSE IF returns = <<>>
             THEN [raised |-> "none", max_drawdown_pct |-> MaxDrawdownPct(dd.max_drawdown),
                   volatility_pct |-> 0, sharpe_like |-> 0]
             ELSE LET mean_ret == MeanOf(returns, 1, Len(returns), Len(returns))
                      var == WDivInt(WSumSquares(returns, mean_ret, 1, Len(returns)),
                                     Len(returns))
                      vol == WSqrt(var)
                  IN  [raised |-> "none",
                       max_drawdown_pct |-> MaxDrawdownPct(dd.max_drawdown),
                       volatility_pct |-> Round2(FMul(vol, FromInt(100))),
                       sharpe_like |-> SharpeLike(mean_ret, vol)]

(***************************************************************************)
(* generate_dummy_prices.  today is what dt.date.today() returns.          *)
(***************************************************************************)
MinDays == 5
MaxDays == 365
MaxWindow == 100

GenGuard(days) ==
    IF days < MinDays THEN "ValueError: days must be at least 5" ELSE "none"

Drift == SCALE \div 1000
Noise(i) == ((i % 5) - 2) * (5 * (SCALE \div 10000))

GenStart == [i |-> 0, price |-> FromInt(100), prices |-> <<>>]

\* mutant: the series starts `days` days back, so it ends yesterday
StartDateOffByOne(days, today) == today - days

StartDate(days, today) == today - (days - 1)

GenIter(days, today, st) ==
    LET start_date   == StartDate(days, today)
        current_date == start_date + st.i
        price        == FMul(st.price, FromInt(1) + Drift + Noise(st.i))
    IN  [i |-> st.i + 1, price |-> price,
         prices |-> Append(st.prices, [date  |-> strftime(current_date),
                                       close |-> OfHundredths(Round2(price))])]

\* for i in range(days): at most n iterations of the loop, from st
RECURSIVE GenLoop(_, _, _, _)
GenLoop(days, today, st, n) ==
    IF n = 0 \/ st.i >= days THEN st
    ELSE IF n = 1 THEN GenIter(days, today, st)
    ELSE GenLoop(days, today, GenLoop(days, today, st, n \div 2), n - (n \div 2))

generate_dummy_prices(symbol, days, today) ==
    IF GenGuard(days) # "none" THEN [raised |-> GenGuard(days)]
    ELSE [raised |-> "none", prices |-> GenLoop(days, today, GenStart, days).prices]

(***************************************************************************)
(* fetch_real_prices_yfinance.  The market-data collaborator is outside    *)
(* the repository: feed is the close column yf.download returned, a        *)
(* sequence of rows [date, close, isnan], isnan saying that the close is   *)
(* NaN.                                                                    *)
(***************************************************************************)
DropNa(feed) == SelectSeq(feed, LAMBDA row : ~row.isnan)

Tail_(s, n) == IF Len(s) <= n THEN s ELSE SubSeq(s, Len(s) - n + 1, Len(s))

fetch_real_prices_yfinance(symbol, days, feed) ==
    IF days < MinDays \/ days > MaxDays
    THEN [raised |-> "ValueError: days must be between 5 and 365 for real-data backtests"]
    ELSE IF feed = <<>> THEN [raised |-> "ValueError: No price data returned"]
    ELSE IF DropNa(feed) = <<>> THEN [raised |-> "ValueError: No valid close prices"]
    ELSE LET close_series == Tail_(DropNa(feed), days)
             prices == [k \in 1..Len(close_series) |->
                          [date  |-> strftime(close_series[k].date),
                           close |-> close_series[k].close]]
         IN  IF Len(prices) < 5 THEN [raised |-> "ValueError: Not enough data points"]
             ELSE [raised |-> "none", prices |-> prices]

(***************************************************************************)
(* run_dummy_backtest                                                      *)
(***************************************************************************)
UpperChar(c) ==
    CASE c = "a" -> "A" [] c = "b" -> "B" [] c = "c" -> "C" [] OTHER -> c
Upper(symbol) == [k \in 1..Len(symbol) |-> UpperChar(symbol[k])]

ParamGuard(window, alt_window, days) ==
    IF days < MinDays \/ days > MaxDays THEN "ValueError: days must be between 5 and 365"
    ELSE IF window < 1 \/ alt_window < 1 THEN "ValueError: SMA windows must be at least 1"
    ELSE "none"

PriceSource(symbol, days, use_real, today, feed) ==
    IF use_real THEN fetch_real_prices_yfinance(symbol, days, feed)
    ELSE generate_dummy_prices(symbol, days, today)

\* mutant: the alternate run is given the primary window
AltRunWindowPrimary(window, alt_window) == window

\* the window the alternate run is given
AltRunWindow(window, alt_window) == alt_window

EquityPoints(equity_curve_main) ==
    [k \in 1..Len(equity_curve_main) |-> [step |-> k, equity |-> Round4(equity_curve_main[k])]]

Assemble(symbol, window, alt_window, days, prices, bh, main, alt, risk) ==
    [raised |-> "none",
     symbol |-> Upper(symbol), window |-> window, alt_window |-> alt_window, days |-> days,
     buy_and_hold_return_pct |-> bh,
     sma_strategy_return_pct |-> main.total_return_pct,
     alt_sma_strategy_return_pct |-> alt.total_return_pct,
     num_points |-> Len(prices),
     prices |-> prices,
     equity_curve |-> EquityPoints(main.equity_curve),
     max_drawdown_pct |-> risk.max_drawdown_pct,
     volatility_pct |-> risk.volatility_pct,
     sharpe_like |-> risk.sharpe_like]

run_dummy_backtest(symbol, window, alt_window, days, use_real, today, feed) ==
    IF ParamGuard(window, alt_window, days) # "none"
    THEN [raised |-> ParamGuard(window, alt_window, days)]
    ELSE LET src == PriceSource(symbol, days, use_real, today, feed)
         IN  IF src.raised # "none" THEN [raised |-> src.raised]
             ELSE LET prices == src.prices
                      bh     == compute_buy_and_hold_return(prices)
                      main   == run_sma_strategy(prices, window)
                  IN  IF main.raised # "none" THEN [raised |-> main.raised]
                      ELSE LET alt == run_sma_strategy(prices, AltRunWindow(window, alt_window))
                           IN  IF alt.raised # "none" THEN [raised |-> alt.raised]
                               ELSE LET risk == compute_risk_metrics(main.equity_curve)
                                    IN  IF risk.raised # "none" THEN [raised |-> risk.raised]
                                        ELSE Assemble(symbol, window, alt_window, days,
                                                      prices, bh, main, alt, risk)

(***************************************************************************)
(* backtest_demo: FastAPI checks the Query constraints before the body     *)
(* runs and answers 422 when one fails.                                    *)
(***************************************************************************)
\* mutant: alt_window has no upper bound
QueryGuardAltUnbounded(symbol, window, alt_window, days) ==
    IF /\ Len(symbol) >= 1 /\ Len(symbol) <= 10
       /\ window >= 1 /\ window <= MaxWindow
       /\ alt_window >= 1
       /\ days >= MinDays /\ days <= MaxDays
    THEN "none" ELSE "422: validation error"

QueryGuard(symbol, window, alt_window, days) ==
    IF /\ Len(symbol) >= 1 /\ Len(symbol) <= 10
       /\ window >= 1 /\ window <= MaxWindow
       /\ alt_window >= 1 /\ alt_window <= MaxWindow
       /\ days >= MinDays /\ days <= MaxDays
    THEN "none" ELSE "422: validation error"

backtest_demo(symbol, window, alt_window, days, today) ==
    IF QueryGuard(symbol, window, alt_window, days) # "none"
    THEN [raised |-> QueryGuard(symbol, window, alt_window, days)]
    ELSE run_dummy_backtest(symbol, window, alt_window, days, FALSE, today, <<>>)

(***************************************************************************)
(* The state machine.  Four ways in: the strategy functions on a price     *)
(* list (buy-and-hold, then run_sma_strategy one loop iteration at a time, *)
(* then compute_risk_metrics on its curve), compute_risk_metrics on an     *)
(* equity curve of its own, generate_dummy_prices one loop iteration at a  *)
(* time, and a client of the service: each request it sends (to the HTTP   *)
(* endpoint or to run_dummy_backtest directly) repeats its previous one    *)
(* with at most one parameter changed.                                     *)
(***************************************************************************)
VARIABLES entry, pc, prices, window, loop, curve, bh, sma, risk, gen, today, prev, cur

vars == <<entry, pc, prices, window, loop, curve, bh, sma, risk, gen, today, prev, cur>>

MaxLen == 4
MaxClose == 2
MaxWin == 1
DaySpan == 0
GenDays == 7

Today0 == 739000 + 618
Symbols == {<<"a">>, <<"A", "b">>}

\* the closes a list is drawn from: the degenerate ones (negative, zero) and 1..MaxClose
CloseChoices == {FromInt(c) : c \in (0 - 1)..MaxClose}
CloseLists(n) == UNION {[1..m -> CloseChoices] : m \in n..MaxLen}
PriceList(cs) ==
    [k \in 1..Len(cs) |-> [date |-> strftime(Today0 - Len(cs) + k), close |-> cs[k]]]

\* windows: the smallest ones, one as long as the shortest series, one above the maximum
WindowChoices == (0..MaxWin) \cup {MinDays, MaxWindow + 1}
DayChoices == ((MinDays - 1)..(MinDays + DaySpan)) \cup {MaxWindow + 2, MaxDays + 1}
GenDayChoices == (0..GenDays) \cup {MaxDays}
Kinds == {"http", "core", "core_real"}
Params == [kind : Kinds, symbol : Symbols, window : WindowChoices,
           alt_window : WindowChoices, days : DayChoices]

\* the rows of a feed ending on `day`: closes cs, those at the indices nans NaN
FeedRows(day, cs, nans) ==
    [k \in 1..Len(cs) |-> [date |-> day - Len(cs) + k,
                           close |-> IF k \in nans THEN 0 ELSE FromInt(cs[k]),
                           isnan |-> k \in nans]]
Feeds(day) == {<<>>, FeedRows(day, <<2, 1, 0, 3, 2, 4, 3>>, {3})}

NotRun == [raised |-> "not run"]
NoGen == [symbol |-> <<>>, days |-> 0, i |-> 0, price |-> 0, prices |-> <<>>,
          raised |-> "not run", returned |-> FALSE]
NoParams == [kind |-> "none", symbol |-> <<>>, window |-> 0, alt_window |-> 0, days |-> 0]
NoCall == [params |-> NoParams, today |-> 0, out |-> NotRun]

InitStrategy ==
    /\ entry = "strategy" /\ pc = "buy_and_hold"
    /\ prices \in {PriceList(cs) : cs \in CloseLists(1)}
    /\ window \in 0..MaxLen
    /\ loop = SmaStart /\ curve = <<>> /\ bh = 0 /\ sma = NotRun /\ risk = NotRun
    /\ gen = NoGen /\ today = Today0 /\ prev = NoCall /\ cur = NoCall

InitRisk ==
    /\ entry = "risk" /\ pc = "risk"
    /\ curve \in CloseLists(0)
    /\ prices = <<>> /\ window = 0 /\ loop = SmaStart /\ bh = 0 /\ sma = NotRun
    /\ risk = NotRun /\ gen = NoGen /\ today = Today0 /\ prev = NoCall /\ cur = NoCall

InitGenerate ==
    /\ entry = "generate" /\ pc = "gen_enter"
    /\ gen \in {[NoGen EXCEPT !.symbol = s, !.days = d] : s \in Symbols, d \in GenDayChoices}
    /\ today \in {Today0, Today0 + 1}
    /\ prices = <<>> /\ window = 0 /\ loop = SmaStart /\ curve = <<>>
    /\ bh = 0 /\ sma = NotRun /\ risk = NotRun /\ prev = NoCall /\ cur = NoCall

InitApi ==
    /\ entry = "api" /\ pc = "api_idle"
    /\ today = Today0
    /\ prices = <<>> /\ window = 0 /\ loop = SmaStart /\ curve = <<>>
    /\ bh = 0 /\ sma = NotRun /\ risk = NotRun
    /\ gen = NoGen /\ prev = NoCall /\ cur = NoCall

Init == InitStrategy \/ InitRisk \/ InitGenerate \/ InitApi

\* ---- the strategy functions, in the order run_dummy_backtest calls them
BuyAndHold ==
    /\ pc = "buy_and_hold"
    /\ bh' = compute_buy_and_hold_return(prices)
    /\ pc' = "sma_enter"
    /\ UNCHANGED <<entry, prices, window, loop, curve, sma, risk, gen, today, prev, cur>>

SmaEnter ==
    /\ pc = "sma_enter"
    /\ IF SmaGuard(Closes(prices), window) # "none"
       THEN /\ sma' = [raised |-> SmaGuard(Closes(prices), window)]
            /\ pc' = "raised"
            /\ loop' = loop
       ELSE /\ loop' = SmaStart
            /\ pc' = "sma_loop"
            /\ sma' = sma
    /\ UNCHANGED <<entry, prices, window, curve, bh, risk, gen, today, prev, cur>>

SmaLoopStep ==
    /\ pc = "sma_loop"
    /\ loop.i < Len(prices)
    /\ loop' = SmaIter(Closes(prices), window, loop)
    /\ UNCHANGED <<entry, pc, prices, window, curve, bh, sma, risk, gen, today, prev, cur>>

SmaExit ==
    /\ pc = "sma_loop"
    /\ loop.i >= Len(prices)
    /\ sma' = SmaResult(loop.equity_curve)
    /\ curve' = loop.equity_curve
    /\ pc' = "risk"
    /\ UNCHANGED <<entry, prices, window, loop, bh, risk, gen, today, prev, cur>>

RiskMetrics ==
    /\ pc = "risk"
    /\ risk' = compute_risk_metrics(curve)
    /\ pc' = "done"
    /\ UNCHANGED <<entry, prices, window, loop, curve, bh, sma, gen, today, prev, cur>>

\* ---- generate_dummy_prices
GenEnter ==
    /\ pc = "gen_enter"
    /\ IF GenGuard(gen.days) # "none"
       THEN /\ gen' = [gen EXCEPT !.raised = GenGuard(gen.days)]
            /\ pc' = "raised"
       ELSE /\ gen' = [gen EXCEPT !.raised = "none", !.i = GenStart.i,
                                  !.price = GenStart.price, !.prices = GenStart.prices]
            /\ pc' = "gen_loop"
    /\ UNCHANGED <<entry, prices, window, loop, curve, bh, sma, risk, today, prev, cur>>

GenStep ==
    /\ pc = "gen_loop"
    /\ gen.i < gen.days
    /\ LET st == GenIter(gen.days, today, [i |-> gen.i, price |-> gen.price,
                                           prices |-> gen.prices])
       IN  gen' = [gen EXCEPT !.i = st.i, !.price = st.price, !.prices = st.prices]
    /\ UNCHANGED <<entry, pc, prices, window, loop, curve, bh, sma, risk, today, prev, cur>>

GenExit ==
    /\ pc = "gen_loop"
    /\ gen.i >= gen.days
    /\ gen' = [gen EXCEPT !.returned = TRUE]
    /\ pc' = "done"
    /\ UNCHANGED <<entry, prices, window, loop, curve, bh, sma, risk, today, prev, cur>>

\* ---- the client and the service
Differences(p, q) ==
    Cardinality({f \in {"kind", "symbol", "window", "alt_window", "days"} : p[f] # q[f]})

Submit(p) ==
    /\ pc = "api_idle"
    /\ IF cur = NoCall THEN TRUE ELSE Differences(cur.params, p) <= 1
    /\ prev' = cur
    /\ cur' = [params |-> p, today |-> today, out |-> NotRun]
    /\ pc' = "api_run"
    /\ UNCHANGED <<entry, prices, window, loop, curve, bh, sma, risk, gen, today>>

HandleHttp ==
    /\ pc = "api_run"
    /\ cur.params.kind = "http"
    /\ cur' = [cur EXCEPT !.out = backtest_demo(cur.params.symbol, cur.params.window,
                                   cur.params.alt_window, cur.params.days, today)]
    /\ pc' = "api_idle"
    /\ UNCHANGED <<entry, prices, window, loop, curve, bh, sma, risk, gen, today, prev>>

HandleCore ==
    /\ pc = "api_run"
    /\ cur.params.kind = "core"
    /\ cur' = [cur EXCEPT !.out = run_dummy_backtest(cur.params.symbol, cur.params.window,
                                   cur.params.alt_window, cur.params.days, FALSE, today, <<>>)]
    /\ pc' = "api_idle"
    /\ UNCHANGED <<entry, prices, window, loop, curve, bh, sma, risk, gen, today, prev>>

HandleCoreReal(feed) ==
    /\ pc = "api_run"
    /\ cur.params.kind = "core_real"
    /\ cur' = [cur EXCEPT !.out = run_dummy_backtest(cur.params.symbol, cur.params.window,
                                   cur.params.alt_window, cur.params.days, TRUE, today, feed)]
    /\ pc' = "api_idle"
    /\ UNCHANGED <<entry, prices, window, loop, curve, bh, sma, risk, gen, today, prev>>

Next ==
    \/ BuyAndHold
    \/ SmaEnter
    \/ SmaLoopStep
    \/ SmaExit
    \/ RiskMetrics
    \/ GenEnter
    \/ GenStep
    \/ GenExit
    \/ \E p \in Params : Submit(p)
    \/ HandleHttp
    \/ HandleCore
    \/ \E feed \in Feeds(today) : HandleCoreReal(feed)

Spec == Init /\ [][Next]_vars

(***************************************************************************)
(* What the properties below are stated in.  Positions and drawdowns are   *)
(* restated here from their definitions, independently of the loop state.  *)
(***************************************************************************)
One == FromInt(1)
AllPositive(s) == \A k \in 1..Len(s) : s[k] > 0
InStrategy == entry = "strategy" /\ pc \in {"sma_loop", "risk", "done"}
StrategyDone == entry = "strategy" /\ pc = "done"

\* pos[j] for the code's index j: long exactly when j >= window - 1 and close[j]
\* is above the mean of the window closes ending at j
PosAt(closes, w, j) ==
    IF j >= w - 1 /\ j >= 0 /\ closes[j + 1] > MeanOf(closes, j - w + 2, j + 1, w)
    THEN One ELSE 0

\* equity after step i when the step's return is weighted by `pos`
Compounded(closes, equity_curve, i, pos) ==
    FMul(equity_curve[i], One + FMul(pos, FDiv(closes[i + 1], closes[i]) - One))

NeverLong(closes, w) == \A j \in 0..(Len(closes) - 1) : PosAt(closes, w, j) = 0

MaxOf(S) == CHOOSE x \in S : \A y \in S : y <= x
MinOf(S) == CHOOSE x \in S : \A y \in S : x <= y
PeakUpTo(equity_curve, k) == MaxOf({equity_curve[j] : j \in 1..k})
\* the most negative equity / running_peak - 1 over the curve, in hundredths of a percent
DeepestDrawdownPct(equity_curve) ==
    Round2(FMul(MinOf({FDiv(equity_curve[k], PeakUpTo(equity_curve, k)) - One :
                       k \in 1..Len(equity_curve)}), FromInt(100)))

\* the proleptic ordinal of a calendar date, the inverse of the formatting
DateOrdinal(d) ==
    LET y   == IF d[2] <= 2 THEN d[1] - 1 ELSE d[1]
        era == y \div 400
        yoe == y - era * 400
        mp  == IF d[2] > 2 THEN d[2] - 3 ELSE d[2] + 9
        doy == (153 * mp + 2) \div 5 + d[3] - 1
        doe == yoe * 365 + yoe \div 4 - yoe \div 100 + doy
    IN  era * 146097 + doe - 305

ApiIdle == entry = "api" /\ pc = "api_idle" /\ cur # NoCall
ApiPair == ApiIdle /\ prev # NoCall
Ok(c) == c.out.raised = "none"
\* the call ended in the failure `how` and returned no result record
Failed(c, how) == DOMAIN c.out = {"raised"} /\ c.out.raised \in how
Rejected422 == {"422: validation error"}
RejectedByCore == {"ValueError: days must be between 5 and 365",
                   "ValueError: SMA windows must be at least 1"}
NotEnough == {"ValueError: Not enough points"}
Dummy(c) == c.params.kind \in {"http", "core"}
SameSeries(a, b) == Dummy(a) /\ Dummy(b) /\ a.params.days = b.params.days /\ a.today = b.today

(***************************************************************************)
(* C1.  As stated: for positive closes and len(prices) >= window + 1,      *)
(* equity[i] = equity[i-1] * (1 + pos[i] * (close[i]/close[i-1] - 1)) for  *)
(* every i >= 1, with pos[i] the position decided from the closes up to i. *)
(***************************************************************************)
C1_AsStated ==
    (InStrategy /\ AllPositive(Closes(prices))) =>
        \A i \in 1..(Len(loop.equity_curve) - 1) :
            loop.equity_curve[i + 1] =
                Compounded(Closes(prices), loop.equity_curve, i,
                           PosAt(Closes(prices), window, i))

\* C1, amended: for positive closes and len(prices) >= window + 1, the return of
\* step i is weighted by the position decided at step i - 1:
\* equity[i] = equity[i-1] * (1 + pos[i-1] * (close[i]/close[i-1] - 1)), i >= 1
C1_LaggedPosition ==
    (InStrategy /\ AllPositive(Closes(prices))) =>
        \A i \in 1..(Len(loop.equity_curve) - 1) :
            loop.equity_curve[i + 1] =
                Compounded(Closes(prices), loop.equity_curve, i,
                           PosAt(Closes(prices), window, i - 1))

\* a finished run over positive closes in which the position changes at a step
\* whose price return is not zero
C1_Witness ==
    /\ StrategyDone /\ AllPositive(Closes(prices))
    /\ \E i \in 1..(Len(prices) - 1) :
          /\ PosAt(Closes(prices), window, i) # PosAt(Closes(prices), window, i - 1)
          /\ prices[i + 1].close # prices[i].close

C3_InsufficientData ==
    /\ (entry = "strategy" /\ pc \notin {"buy_and_hold", "sma_enter"} /\ window >= 1) =>
          IF Len(prices) < window + 1
          THEN pc = "raised" /\ sma = [raised |-> "ValueError: Not enough points"]
               /\ loop = SmaStart /\ curve = <<>>
          ELSE pc # "raised" /\ sma.raised \in {"not run", "none"}
    /\ (ApiIdle /\ Dummy(cur) /\ cur.params.days \in MinDays..MaxDays
          /\ cur.params.window >= 1 /\ cur.params.alt_window >= 1
          /\ (cur.params.kind = "http" =>
                 cur.params.window <= MaxWindow /\ cur.params.alt_window <= MaxWindow)) =>
          IF \/ cur.params.days < cur.params.window + 1
             \/ cur.params.days < cur.params.alt_window + 1
          THEN Failed(cur, NotEnough)
          ELSE Ok(cur)

\* a request whose primary window has enough points and whose alternate has not
C3_Witness ==
    /\ ApiIdle /\ cur.params.kind = "core"
    /\ cur.params.days >= cur.params.window + 1 /\ cur.params.window >= 1
    /\ cur.params.days < cur.params.alt_window + 1
    /\ Failed(cur, NotEnough)

(***************************************************************************)
(* C4.  equity[0] = 1.0 and equity[i] = 1.0 for every i with               *)
(* i + 1 < window; the first equity point of a result of                   *)
(* run_dummy_backtest, its point of step 1, is 1.0.                        *)
(***************************************************************************)
C4_WarmUp ==
    /\ InStrategy =>
          \A k \in 1..Len(loop.equity_curve) :
              (k = 1 \/ k < window) => loop.equity_curve[k] = One
    /\ (ApiIdle /\ Ok(cur)) =>
          /\ cur.out.equity_curve[1].step = 1
          /\ cur.out.equity_curve[1].equity = Round4(One)

\* a finished run whose warm-up covers a step with a price move
C4_Witness ==
    /\ StrategyDone /\ window >= 3
    /\ prices[1].close > 0 /\ prices[2].close # prices[1].close
    /\ loop.equity_curve[2] = One

(***************************************************************************)
(* C5.  If the strategy is never long, every equity value is 1.0 and the   *)
(* strategy's total return is 0.0.                                         *)
(***************************************************************************)
C5_NeverLong ==
    (StrategyDone /\ NeverLong(Closes(prices), window)) =>
        /\ \A k \in 1..Len(sma.equity_curve) : sma.equity_curve[k] = One
        /\ Len(sma.equity_curve) = Len(prices)
        /\ sma.total_return_pct = 0

\* a finished run that was never long although the price moved
C5_Witness ==
    /\ StrategyDone /\ NeverLong(Closes(prices), window)
    /\ AllPositive(Closes(prices))
    /\ \E i \in 1..(Len(prices) - 1) : prices[i + 1].close # prices[i].close

(***************************************************************************)
(* C6.  A flat series of one positive close gives, for every valid window, *)
(* buy-and-hold, strategy return, drawdown, volatility and sharpe_like all *)
(* 0.0: the zero standard deviation is guarded, nothing divides by zero.   *)
(***************************************************************************)
Flat(closes) == closes[1] > 0 /\ \A k \in 1..Len(closes) : closes[k] = closes[1]

C6_FlatSeries ==
    /\ (entry = "strategy" /\ pc \in {"sma_enter", "sma_loop", "risk", "done"}
          /\ Flat(Closes(prices))) => bh = 0
    /\ (StrategyDone /\ Flat(Closes(prices))) =>
          /\ sma.raised = "none" /\ sma.total_return_pct = 0
          /\ risk = [raised |-> "none", max_drawdown_pct |-> 0,
                     volatility_pct |-> 0, sharpe_like |-> 0]
    /\ (entry = "risk" /\ pc = "done" /\ Len(curve) >= 1 /\ Flat(curve)) =>
          risk = [raised |-> "none", max_drawdown_pct |-> 0,
                  volatility_pct |-> 0, sharpe_like |-> 0]

\* the whole pipeline has run over a flat series longer than its window
C6_Witness ==
    /\ StrategyDone /\ Flat(Closes(prices)) /\ Len(prices) >= 3 /\ window >= 2
    /\ risk.raised = "none" /\ risk.sharpe_like = 0

(***************************************************************************)
(* C7.  For days in 5..365 generate_dummy_prices returns exactly `days`    *)
(* points, on consecutive calendar days ending today (so strictly          *)
(* increasing dates), with positive closes; the output depends on days and *)
(* the current date only, not on the symbol.                               *)
(***************************************************************************)
WellFormedSeries(ps, days, day) ==
    /\ Len(ps) = days
    /\ \A k \in 1..Len(ps) : ps[k].close > 0
    /\ \A k \in 1..(Len(ps) - 1) :
          /\ DateLess(ps[k].date, ps[k + 1].date)
          /\ DateOrdinal(ps[k + 1].date) = DateOrdinal(ps[k].date) + 1
    /\ DateOrdinal(ps[Len(ps)].date) = day

C7_Generator ==
    /\ (entry = "generate" /\ pc = "done" /\ gen.days \in MinDays..MaxDays) =>
          /\ gen.returned /\ gen.raised = "none"
          /\ WellFormedSeries(gen.prices, gen.days, today)
          /\ gen.prices = generate_dummy_prices(<<>>, gen.days, today).prices
    /\ (entry = "generate" /\ pc = "raised") => gen.days \notin MinDays..MaxDays
    /\ (ApiIdle /\ Dummy(cur) /\ Ok(cur)) =>
          WellFormedSeries(cur.out.prices, cur.params.days, cur.today)
    /\ (ApiPair /\ SameSeries(prev, cur) /\ Ok(prev) /\ Ok(cur)) =>
          cur.out.prices = prev.out.prices

\* two answered requests that differ in the symbol only
C7_Witness ==
    /\ ApiPair /\ SameSeries(prev, cur) /\ Ok(prev) /\ Ok(cur)
    /\ prev.params.symbol # cur.params.symbol
    /\ cur.out.symbol # prev.out.symbol
    /\ Len(cur.out.prices) > MaxWindow

(***************************************************************************)
(* C8.  As stated: whenever days is outside 5..365, or window or           *)
(* alt_window is below 1 or above 100, run_dummy_backtest ends in a        *)
(* validation failure with no result record, and nothing is clamped.       *)
(***************************************************************************)
OutOfRange(p) ==
    \/ p.days < MinDays \/ p.days > MaxDays
    \/ p.window < 1 \/ p.window > MaxWindow
    \/ p.alt_window < 1 \/ p.alt_window > MaxWindow

NeverClamped(c) ==
    Ok(c) => /\ c.out.window = c.params.window
             /\ c.out.alt_window = c.params.alt_window
             /\ c.out.days = c.params.days
             /\ c.out.num_points <= c.params.days

C8_AsStated ==
    (ApiIdle /\ cur.params.kind \in {"core", "core_real"}) =>
        /\ OutOfRange(cur.params) => DOMAIN cur.out = {"raised"}
        /\ NeverClamped(cur)

\* C8, amended: run_dummy_backtest ends in a validation failure with no result
\* record whenever days is outside 5..365 or a window is below 1; a window above
\* 100 is refused by backtest_demo alone (a 422 before the core is called),
\* while the core runs it as given; no parameter is ever clamped
C8_Validation ==
    /\ (ApiIdle /\ cur.params.kind \in {"core", "core_real"}) =>
          /\ (\/ cur.params.days < MinDays \/ cur.params.days > MaxDays
              \/ cur.params.window < 1 \/ cur.params.alt_window < 1)
                 <=> Failed(cur, RejectedByCore)
          /\ NeverClamped(cur)
    /\ (ApiIdle /\ cur.params.kind = "http") =>
          /\ OutOfRange(cur.params) <=> Failed(cur, Rejected422)
          /\ NeverClamped(cur)

\* the boundary has refused a request whose only fault is a window above 100
C8_Witness ==
    /\ ApiIdle /\ cur.params.kind = "http"
    /\ cur.params.alt_window > MaxWindow /\ cur.params.window \in 1..MaxWindow
    /\ cur.params.days \in (MaxWindow + 2)..MaxDays
    /\ Failed(cur, Rejected422)

(***************************************************************************)
(* C9.  As stated: for two requests on the same series, changing one       *)
(* window never changes the other window's result, including whether a     *)
(* result is produced at all.                                              *)
(***************************************************************************)
PrimaryOutputs(c) ==
    <<c.out.sma_strategy_return_pct, c.out.equity_curve, c.out.max_drawdown_pct,
      c.out.volatility_pct, c.out.sharpe_like>>

WindowsIndependent ==
    /\ (prev.params.alt_window = cur.params.alt_window /\ Ok(prev) /\ Ok(cur)) =>
          cur.out.alt_sma_strategy_return_pct = prev.out.alt_sma_strategy_return_pct
    /\ (prev.params.window = cur.params.window /\ Ok(prev) /\ Ok(cur)) =>
          PrimaryOutputs(cur) = PrimaryOutputs(prev)

InCoreRange(p) == p.days \in MinDays..MaxDays /\ p.window >= 1 /\ p.alt_window >= 1

C9_AsStated ==
    (ApiPair /\ SameSeries(prev, cur) /\ prev.params.kind = "core"
       /\ cur.params.kind = "core" /\ InCoreRange(prev.params) /\ InCoreRange(cur.params)) =>
        /\ WindowsIndependent
        /\ (\/ prev.params.alt_window = cur.params.alt_window
            \/ prev.params.window = cur.params.window) => (Ok(prev) <=> Ok(cur))

\* C9, amended: for two requests on the same series that both return a result,
\* the same alt_window gives the same alt_sma_strategy_return_pct whatever the
\* window, and the same window gives the same sma_strategy_return_pct,
\* equity_curve, max_drawdown_pct, volatility_pct and sharpe_like whatever the
\* alt_window; whether a result is returned at all depends on both windows
C9_Independence ==
    (ApiPair /\ SameSeries(prev, cur)) => WindowsIndependent

\* two answered requests that differ in the window only, with different primary
\* results
C9_Witness ==
    /\ ApiPair /\ SameSeries(prev, cur) /\ Ok(prev) /\ Ok(cur)
    /\ prev.params.window # cur.params.window
    /\ prev.params.alt_window = cur.params.alt_window
    /\ prev.out.sma_strategy_return_pct # cur.out.sma_strategy_return_pct

(***************************************************************************)
(* C10.  As stated: with a non-positive close anywhere in the series       *)
(* nothing faults, every step whose return involves a non-positive close   *)
(* (as close[i-1] or as close[i]) leaves the equity unchanged, and the     *)
(* equity never goes below zero.                                           *)
(***************************************************************************)
C10_AsStated ==
    /\ (InStrategy /\ ~AllPositive(Closes(prices))) =>
          /\ \A i \in 1..(Len(loop.equity_curve) - 1) :
                (prices[i].close <= 0 \/ prices[i + 1].close <= 0) =>
                    loop.equity_curve[i + 1] = loop.equity_curve[i]
          /\ \A k \in 1..Len(loop.equity_curve) : loop.equity_curve[k] >= 0
    /\ (StrategyDone /\ ~AllPositive(Closes(prices))) => risk.raised = "none"

====
